---------------------------- MODULE Spec2Model ----------------------------
(***************************************************************************)
(* A model of gptcli.py: the conversation-state store under STATE_DIR, the *)
(* last-used pointer file, the resolver, the message assembler and the     *)
(* three commands that change the store (send, rm, rename) plus ls.        *)
(*                                                                         *)
(* Text (names, prompts, pointer content) is a sequence of one-character   *)
(* strings, so that Path(...).name, str.strip() and "+" are computed.      *)
(* Python's None is the empty tuple None; a present value x is Some(x).    *)
(*                                                                         *)
(* The store directory is the pair (files, order): files maps the name of  *)
(* every regular file of STATE_DIR to its content, order lists the same    *)
(* names by st_mtime, oldest first.  Only the order of the modification    *)
(* times is kept, since the code only compares them (max by st_mtime).     *)
(*                                                                         *)
(* Environment: one invocation is a process p.  A send runs in steps       *)
(* (resolve, load, completion call, open / write / rename of the temporary *)
(* file, pointer write and print); between two steps the process can be    *)
(* killed, the completion call can fail, and the writes of save_state and  *)
(* of update_last_state can fail with an I/O error.  rm, rename and ls are *)
(* single steps whose system calls succeed.                                *)
(*                                                                         *)
(* Between tmp.open("w") and the end of json.dump a process holds an open  *)
(* file: fd is the name its inode has now (a rename by another process     *)
(* moves it), or Unlinked once the inode has no name.  The text is written *)
(* at offset 0 of that inode, over whatever another writer left there.     *)
(***************************************************************************)
EXTENDS Integers, Sequences, FiniteSets, TLC

VARIABLES files, order, proc, faults

vars == <<files, order, proc, faults>>

---------------------------------------------------------------------------
(* Bounds of the model *)

\* longest history (in messages) a send is started on, plus the two it adds
MaxMsgs == 4
\* kills and I/O failures injected in one behaviour
MaxFaults == 1

---------------------------------------------------------------------------
(* Python values *)

None == <<>>
Some(x) == <<x>>
Val(o) == o[1]

\* bool(o) of an Optional[str]: None and "" are falsy
Truthy(o) == o # None /\ Val(o) # <<>>

Whitespace == {" ", "\n", "\t"}

RECURSIVE LStrip(_)
LStrip(s) ==
    IF s # <<>> /\ Head(s) \in Whitespace THEN LStrip(Tail(s)) ELSE s

RECURSIVE RStrip(_)
RStrip(s) ==
    IF s # <<>> /\ s[Len(s)] \in Whitespace
    THEN RStrip(SubSeq(s, 1, Len(s) - 1))
    ELSE s

\* str.strip()
Strip(s) == RStrip(LStrip(s))

\* the components of a path: the text between the "/" separators
RECURSIVE SplitPath(_, _, _)
SplitPath(s, cur, acc) ==
    IF s = <<>> THEN Append(acc, cur)
    ELSE IF Head(s) = "/" THEN SplitPath(Tail(s), <<>>, Append(acc, cur))
    ELSE SplitPath(Tail(s), Append(cur, Head(s)), acc)

\* pathlib drops empty and "." components when it parses a path
PathParts(s) ==
    SelectSeq(SplitPath(s, <<>>, <<>>), LAMBDA c : c # <<>> /\ c # <<".">>)

\* Path(s).name: the last component, "" when there is none
PathName(s) ==
    LET parts == PathParts(s)
    IN  IF parts = <<>> THEN <<>> ELSE parts[Len(parts)]

\* the name of LAST_STATE_FILE inside STATE_DIR
LAST_STATE_FILE == <<".", "l", "a", "s", "t", "_", "s", "t", "a", "t", "e">>

\* save_state writing the state file in place
TmpPathInPlace(name) == name

\* path.with_suffix(path.suffix + ".tmp"): the name with ".tmp" appended
TmpPath(name) == name \o <<".", "t", "m", "p">>

---------------------------------------------------------------------------
(* File contents *)

\* load_state's default for a missing file
DefaultState == [system |-> None, model |-> None, messages |-> <<>>]

\* a complete json.dump of a state
JsonFile(st) == [kind |-> "json", state |-> st, text |-> <<>>]
\* write_text(name)
TextFile(t) == [kind |-> "text", state |-> DefaultState, text |-> t]
\* a file just opened for writing
EmptyFile == [kind |-> "empty", state |-> DefaultState, text |-> <<>>]
\* a proper, non-empty prefix of a json.dump
PartialFile == [kind |-> "partial", state |-> DefaultState, text |-> <<>>]

\* the text of one dump written over the longer text of another
GarbledFile == [kind |-> "garbled", state |-> DefaultState, text |-> <<>>]

\* the length of str(x) in a dump: null, or the string in quotes
OptSize(o) == IF o = None THEN 4 ELSE Len(Val(o)) + 2

RoleSize(role) ==
    CASE role = "user" -> 4
      [] role = "assistant" -> 9
      [] OTHER -> 6

RECURSIVE MessagesSize(_)
MessagesSize(msgs) ==
    IF msgs = <<>> THEN 0
    ELSE 51 + RoleSize(Head(msgs).role) + Len(Head(msgs).content)
            + MessagesSize(Tail(msgs))

\* the length of json.dump(state, indent=2) for plain characters
JsonSize(st) ==
    47 + OptSize(st.system) + OptSize(st.model)
       + (IF st.messages = <<>> THEN 0 ELSE 2 + MessagesSize(st.messages))

\* what an inode can hold after new is written at offset 0 over old: a file
\* opened with "w" is empty unless another writer has written since; the tail
\* of a longer old text stays behind a shorter new one
Overwrites(old, new) ==
    IF old.kind = "empty" THEN {new}
    ELSE IF new.kind # "json" THEN {GarbledFile}
    ELSE IF old.kind = "json"
    THEN IF JsonSize(new.state) >= JsonSize(old.state)
         THEN {new} ELSE {GarbledFile}
    ELSE IF old.kind = "text" THEN {new}
    ELSE {new, GarbledFile}

\* the text read_text() returns; the text of a JSON dump begins with "{"
ReadText(c) ==
    CASE c.kind = "text" -> c.text
      [] c.kind = "empty" -> <<>>
      [] OTHER -> <<"{">>

---------------------------------------------------------------------------
(* The directory *)

Exists(fs, name) == name \in DOMAIN fs

Without(seq, name) == SelectSeq(seq, LAMBDA n : n # name)

\* create or overwrite name: its modification time becomes the newest
WriteFiles(fs, name, c) ==
    [n \in DOMAIN fs \cup {name} |-> IF n = name THEN c ELSE fs[n]]
WriteOrder(ord, name) == Append(Without(ord, name), name)

\* unlink
UnlinkFiles(fs, name) == [n \in DOMAIN fs \ {name} |-> fs[n]]
UnlinkOrder(ord, name) == Without(ord, name)

\* os.rename / os.replace: dst takes src's content and modification time
MoveFiles(fs, src, dst) ==
    [n \in (DOMAIN fs \ {src}) \cup {dst} |-> IF n = dst THEN fs[src] ELSE fs[n]]
MoveOrder(ord, src, dst) ==
    LET kept == IF src = dst THEN ord ELSE Without(ord, dst)
    IN  [i \in 1..Len(kept) |-> IF kept[i] = src THEN dst ELSE kept[i]]

\* the inode of an open file has lost its name
Unlinked == <<"/">>

\* an open file follows its inode through a rename; the inode that had the
\* new name is gone from the directory
FdAfterMove(fd, src, dst) ==
    IF src = dst THEN fd
    ELSE IF fd = Some(src) THEN Some(dst)
    ELSE IF fd = Some(dst) THEN Some(Unlinked)
    ELSE fd

FdAfterUnlink(fd, name) == IF fd = Some(name) THEN Some(Unlinked) ELSE fd

\* list_state_files: every file of the directory but the pointer file
list_state_files(fs) == DOMAIN fs \ {LAST_STATE_FILE}

\* min instead of max
Oldest(fs, ord) ==
    LET cands == SelectSeq(ord, LAMBDA n : n \in list_state_files(fs))
    IN  cands[1]

\* max(candidates, key=st_mtime).name
Newest(fs, ord) ==
    LET cands == SelectSeq(ord, LAMBDA n : n \in list_state_files(fs))
    IN  cands[Len(cands)]

\* get_last_state_name: the stripped pointer text when there is some, else
\* the newest state file, else None.  readable is FALSE when read_text raises
\* OSError.
get_last_state_name(fs, ord, readable) ==
    LET last == IF Exists(fs, LAST_STATE_FILE) /\ readable
                THEN Strip(ReadText(fs[LAST_STATE_FILE]))
                ELSE <<>>
    IN  IF last # <<>> THEN Some(last)
        ELSE IF list_state_files(fs) = {} THEN None
        ELSE Some(Newest(fs, ord))

\* a resolver that asks the pointer and the directory before the argument
ResolvePointerFirst(state_arg, fs, ord, readable) ==
    LET last == get_last_state_name(fs, ord, readable)
    IN  IF last # None THEN last
        ELSE IF state_arg # None /\ PathName(Val(state_arg)) # <<>>
        THEN Some(PathName(Val(state_arg)))
        ELSE None

\* a resolver that makes up a name when nothing names a state
ResolveDefaultName(state_arg, fs, ord, readable) ==
    IF state_arg # None
    THEN LET name == PathName(Val(state_arg))
         IN  IF name = <<>> THEN None ELSE Some(name)
    ELSE IF get_last_state_name(fs, ord, readable) # None
    THEN get_last_state_name(fs, ord, readable)
    ELSE Some(<<"d", "e", "f", "a", "u", "l", "t">>)

\* resolve_state_path: None stands for die("State name cannot be empty") and
\* for die("No state specified and no previous states exist")
resolve_state_path(state_arg, fs, ord, readable) ==
    IF state_arg # None
    THEN LET name == PathName(Val(state_arg))
         IN  IF name = <<>> THEN None ELSE Some(name)
    ELSE get_last_state_name(fs, ord, readable)


---------------------------------------------------------------------------
(* Inputs *)

Procs == {1, 2}

\* argparse's default for --model
DefaultModel == <<"g", "p", "t", "-", "4", "o", "-", "m", "i", "n", "i">>

\* The command lines and replies the invocations are drawn from:
\*   prompts  (-p, --stdin, standard input); None on standard input is a
\*            terminal
\*   modes    (-s, --new)
\*   systems  --system
\*   models   --model
\*   names    the arguments of rm and rename
\*   replies  what the completion call returns
\* Inputs has two state names, to exercise the resolver, the pointer and the
\* administrative commands.
Inputs ==
    [ prompts |->
        { <<None, FALSE, None>>,
          <<Some(<<"h", "i">>), FALSE, None>> },
      modes |->
        { <<None, FALSE>>,
          <<Some(<<"a">>), FALSE>>,
          <<Some(<<"d", "/", "b">>), FALSE>>,
          <<Some(<<".">>), FALSE>>,
          <<None, TRUE>>,
          <<Some(<<"a">>), TRUE>> },
      systems |-> {None, Some(<<"S">>)},
      models |-> {DefaultModel},
      names |-> {<<"a">>, <<"d", "/", "b">>},
      replies |-> {<<"o", "k">>} ]

\* HistoryInputs has one state name and several prompts and replies, to
\* exercise the message assembler and the history.
HistoryInputs ==
    [ prompts |->
        { <<None, FALSE, None>>,
          <<None, FALSE, Some(<<" ", "x", "\n">>)>>,
          <<Some(<<"h", "i">>), FALSE, Some(<<" ", "x", "\n">>)>>,
          <<Some(<<"h", "i">>), TRUE, Some(<<" ", "x", "\n">>)>> },
      modes |->
        { <<None, FALSE>>,
          <<Some(<<"a">>), FALSE>>,
          <<None, TRUE>> },
      systems |-> {None, Some(<<"S">>), Some(<<>>)},
      models |-> {DefaultModel},
      names |-> {<<"a">>},
      replies |-> {<<"o", "k">>, <<>>} ]

\* FieldInputs has one state name and several values of --model and --system,
\* the empty string among them.
FieldInputs ==
    [ prompts |-> { <<Some(<<"h", "i">>), FALSE, None>> },
      modes |->
        { <<Some(<<"a">>), FALSE>>,
          <<None, FALSE>>,
          <<None, TRUE>> },
      systems |-> {None, Some(<<"S">>), Some(<<"T">>), Some(<<>>)},
      models |-> {DefaultModel, <<"m">>, <<>>},
      names |-> {<<"a">>},
      replies |-> {<<"o", "k">>} ]

\* NameInputs has the names that are something else as well: the store
\* directory and its parent, a name with a trailing slash and the name of
\* another state's temporary file.
NameInputs ==
    [ prompts |-> { <<Some(<<"h", "i">>), FALSE, None>> },
      modes |->
        { <<None, FALSE>>,
          <<Some(<<"a", "/">>), FALSE>>,
          <<Some(<<"a", ".", "t", "m", "p">>), FALSE>>,
          <<Some(<<".", ".">>), FALSE>> },
      systems |-> {None},
      models |-> {DefaultModel},
      names |->
        { <<"a">>, <<"a", ".", "t", "m", "p">>, <<".">>, <<".", ".">> },
      replies |-> {<<"o", "k">>} ]

\* ReservedInputs has one ordinary state name and the name of the pointer
\* file, which no command refuses as a state name.
ReservedInputs ==
    [ prompts |-> { <<Some(<<"h", "i">>), FALSE, None>> },
      modes |->
        { <<None, FALSE>>,
          <<Some(<<"a">>), FALSE>>,
          <<Some(LAST_STATE_FILE), FALSE>> },
      systems |-> {None},
      models |-> {DefaultModel},
      names |-> { <<"a">>, LAST_STATE_FILE },
      replies |-> {<<"o", "k">>} ]

\* RaceInputs has one state name and two prompts of different lengths, for
\* two invocations that run at the same time.
RaceInputs ==
    [ prompts |->
        { <<Some(<<"h", "i">>), FALSE, None>>,
          <<None, FALSE, Some(<<"x">>)>> },
      modes |-> { <<Some(<<"a">>), FALSE>> },
      systems |-> {None},
      models |-> {DefaultModel},
      names |-> {<<"a">>},
      replies |-> {<<"o", "k">>} ]

---------------------------------------------------------------------------
(* One invocation *)

\* a store directory without files
EmptyDir == [n \in {} |-> EmptyFile]

\* a process that runs no command
IdleProc ==
    [ pc |-> "idle", cmd |-> "none",
      arg_state |-> None, arg_other |-> None,
      arg_prompt |-> None, arg_stdin |-> FALSE, stdin |-> None,
      arg_new |-> FALSE, arg_system |-> None, arg_model |-> DefaultModel,
      prompt |-> <<>>, state_path |-> None,
      loaded |-> DefaultState, state |-> DefaultState,
      request |-> None, reply |-> None,
      exit |-> None, printed |-> None, warned |-> FALSE, error |-> "",
      listed |-> {}, unreadable |-> FALSE, fd |-> None,
      pre_files |-> EmptyDir, pre_order |-> <<>> ]

Running(p) == proc[p].pc \notin {"idle", "done", "killed"}

Idle(p) == proc[p].pc = "idle"

\* the record of a command that starts now on the directory as it is
Started(cmd) ==
    [IdleProc EXCEPT !.cmd = cmd, !.pre_files = files, !.pre_order = order]

\* die(msg): the message on stderr and sys.exit(2)
die(r, kind) ==
    [r EXCEPT !.pc = "done", !.exit = Some(2), !.error = kind, !.fd = None]

\* every process's open file after a rename, after an unlink
Moved(pr, src, dst) ==
    [q \in DOMAIN pr |-> [pr[q] EXCEPT !.fd = FdAfterMove(@, src, dst)]]
Removed(pr, name) ==
    [q \in DOMAIN pr |-> [pr[q] EXCEPT !.fd = FdAfterUnlink(@, name)]]

\* read_prompt_from_stdin
read_prompt_from_stdin(stdin) ==
    IF stdin = None THEN <<>> ELSE Strip(Val(stdin))

\* main, lines 247-249: the prompt from -p and standard input
SourcePrompt(arg_prompt, arg_stdin, stdin) ==
    LET piped == read_prompt_from_stdin(stdin)
    IN  IF Truthy(arg_prompt)
        THEN Val(arg_prompt) \o <<" ">> \o (IF arg_stdin THEN piped ELSE <<>>)
        ELSE piped

Turn(role, content) == [role |-> role, content |-> content]

\* the system message after the history instead of before it
BuildSystemLast(state) ==
    state.messages \o (IF Truthy(state.system)
                       THEN <<Turn("system", Val(state.system))>>
                       ELSE <<>>)

\* build_messages
build_messages(state) ==
    (IF Truthy(state.system)
     THEN <<Turn("system", Val(state.system))>>
     ELSE <<>>) \o state.messages

\* defaults that follow the command line on every send
InitStateOverride(state, arg_model, arg_system) ==
    [state EXCEPT !.model = Some(arg_model),
                  !.system = IF Truthy(arg_system) THEN arg_system ELSE @]

\* main, lines 269-272: model and system default from the command line
InitState(state, arg_model, arg_system) ==
    LET s1 == IF state.model = None
              THEN [state EXCEPT !.model = Some(arg_model)]
              ELSE state
    IN  IF s1.system = None /\ Truthy(arg_system)
        THEN [s1 EXCEPT !.system = arg_system]
        ELSE s1

\* main, lines 280-282: the user turn, then the assistant turn
AppendTurn(state, prompt, reply) ==
    [state EXCEPT !.messages =
        Append(Append(@, Turn("user", prompt)), Turn("assistant", reply))]

\* a directory entry that is a directory: STATE_DIR itself and its parent
IsDir(name) == name \in {<<>>, <<".", ".">>}

\* path.exists()
PathExists(fs, name) == IsDir(name) \/ Exists(fs, name)


---------------------------------------------------------------------------
(* send: main, lines 244-289 *)

\* the history a send to this name would extend stays within the bound
WithinBound(name) ==
    (Exists(files, name) /\ files[name].kind = "json")
        => Len(files[name].state.messages) + 2 <= MaxMsgs

\* an ephemeral path that a state name switches off
EphemeralUnlessNamed(new, sarg) == new /\ sarg = None

\* line 255: --new takes the ephemeral path, whatever -s says
EphemeralPath(new, sarg) == new

\* ensure_api_key: OPENAI_API_KEY is not set
SendNoKey(p) ==
    /\ Idle(p)
    /\ proc' = [proc EXCEPT ![p] = die(Started("send"), "no_api_key")]
    /\ UNCHANGED <<files, order, faults>>

\* lines 247-264: the prompt is sourced, then either the ephemeral state is
\* built or the state path is resolved
SendStart(p, in) ==
    /\ Idle(p)
    /\ \E pin \in in.prompts, mode \in in.modes, sys \in in.systems,
          model \in in.models, readable \in BOOLEAN :
        LET sarg == mode[1]
            new == mode[2]
            prompt == SourcePrompt(pin[1], pin[2], pin[3])
            r0 == [Started("send") EXCEPT
                      !.arg_prompt = pin[1], !.arg_stdin = pin[2],
                      !.stdin = pin[3], !.arg_state = sarg, !.arg_new = new,
                      !.arg_system = sys, !.arg_model = model,
                      !.prompt = prompt, !.unreadable = ~readable]
            path == resolve_state_path(sarg, files, order, readable)
            \* the pointer file is read only on this path
            reads == prompt # <<>> /\ ~new /\ sarg = None
                        /\ Exists(files, LAST_STATE_FILE)
        IN  /\ readable \/ (reads /\ faults < MaxFaults)
            /\ faults' = IF readable THEN faults ELSE faults + 1
            /\ IF prompt = <<>>
               THEN proc' = [proc EXCEPT ![p] = die(r0, "no_prompt")]
               ELSE IF EphemeralPath(new, sarg)
               THEN LET state == [system |-> sys, model |-> Some(model),
                                  messages |-> <<>>]
                    IN  proc' = [proc EXCEPT ![p] =
                           [r0 EXCEPT !.pc = "call", !.state = state]]
               ELSE IF path = None
               THEN proc' = [proc EXCEPT ![p] =
                       die(r0, IF sarg # None THEN "empty_name"
                               ELSE "no_state")]
               ELSE /\ WithinBound(Val(path))
                    /\ proc' = [proc EXCEPT ![p] =
                           [r0 EXCEPT !.pc = "load", !.state_path = path]]
    /\ UNCHANGED <<files, order>>

\* load_state, then lines 269-272; a history that has grown past the bound
\* since the send started is not loaded
Load(p) ==
    LET r == proc[p]
        path == Val(r.state_path)
    IN  /\ r.pc = "load"
        /\ WithinBound(path)
        /\ IF ~PathExists(files, path)
           THEN proc' = [proc EXCEPT ![p] =
                    [r EXCEPT !.pc = "call", !.loaded = DefaultState,
                        !.state = InitState(DefaultState, r.arg_model,
                                            r.arg_system)]]
           ELSE IF IsDir(path)
           THEN proc' = [proc EXCEPT ![p] = die(r, "read")]
           ELSE IF files[path].kind # "json"
           THEN proc' = [proc EXCEPT ![p] = die(r, "not_json")]
           ELSE proc' = [proc EXCEPT ![p] =
                    [r EXCEPT !.pc = "call", !.loaded = files[path].state,
                        !.state = InitState(files[path].state, r.arg_model,
                                            r.arg_system)]]
        /\ UNCHANGED <<files, order, faults>>

\* load_state: the read fails
LoadFails(p) ==
    LET r == proc[p]
    IN  /\ r.pc = "load"
        /\ Exists(files, Val(r.state_path))
        /\ faults < MaxFaults
        /\ faults' = faults + 1
        /\ proc' = [proc EXCEPT ![p] = die(r, "read")]
        /\ UNCHANGED <<files, order>>

\* the request of lines 274-277 (256-259 when ephemeral)
Request(r) ==
    [ model |-> IF r.arg_new THEN r.arg_model
                ELSE IF Truthy(r.state.model) THEN Val(r.state.model)
                ELSE r.arg_model,
      messages |-> Append(build_messages(r.state), Turn("user", r.prompt)) ]

\* call_openai returns a reply; an ephemeral send prints it and ends, a
\* persistent one appends the two turns (lines 280-282)
Call(p, in) ==
    LET r == proc[p]
    IN  /\ r.pc = "call"
        /\ \E reply \in in.replies :
            proc' = [proc EXCEPT ![p] =
                IF r.arg_new
                THEN [r EXCEPT !.pc = "done", !.request = Some(Request(r)),
                               !.reply = Some(reply), !.printed = Some(reply),
                               !.exit = Some(0)]
                ELSE [r EXCEPT !.pc = "save_open",
                               !.request = Some(Request(r)),
                               !.reply = Some(reply),
                               !.state = AppendTurn(r.state, r.prompt, reply)]]
        /\ UNCHANGED <<files, order, faults>>

\* a failing call that writes the defaulted state before it gives up
CallFailsAfterSave(p) ==
    LET r == proc[p]
        path == Val(r.state_path)
    IN  /\ r.pc = "call"
        /\ faults < MaxFaults
        /\ faults' = faults + 1
        /\ proc' = [proc EXCEPT ![p] =
              [r EXCEPT !.pc = "done", !.request = Some(Request(r)),
                        !.exit = Some(1), !.error = "api"]]
        /\ files' = IF r.arg_new THEN files
                    ELSE WriteFiles(files, path, JsonFile(r.state))
        /\ order' = IF r.arg_new THEN order ELSE WriteOrder(order, path)

\* call_openai raises: the exception is not caught, the exit status is 1
CallFails(p) ==
    LET r == proc[p]
    IN  /\ r.pc = "call"
        /\ faults < MaxFaults
        /\ faults' = faults + 1
        /\ proc' = [proc EXCEPT ![p] =
              [r EXCEPT !.pc = "done", !.request = Some(Request(r)),
                        !.exit = Some(1), !.error = "api"]]
        /\ UNCHANGED <<files, order>>

---------------------------------------------------------------------------
(* save_state, lines 128-135, in its three system calls *)

\* tmp.open("w"): the temporary file is created, or truncated, empty
SaveOpen(p) ==
    LET r == proc[p]
        tmp == TmpPath(Val(r.state_path))
    IN  /\ r.pc = "save_open"
        /\ files' = WriteFiles(files, tmp, EmptyFile)
        /\ order' = WriteOrder(order, tmp)
        /\ proc' = [proc EXCEPT ![p] =
              [r EXCEPT !.pc = "save_write", !.fd = Some(tmp)]]
        /\ UNCHANGED faults

\* tmp.open("w") fails: nothing is created
SaveOpenFails(p) ==
    LET r == proc[p]
    IN  /\ r.pc = "save_open"
        /\ faults < MaxFaults
        /\ faults' = faults + 1
        /\ proc' = [proc EXCEPT ![p] = die(r, "write")]
        /\ UNCHANGED <<files, order>>

\* json.dump and the close of the file: the whole state is in tmp
SaveWrite(p) ==
    LET r == proc[p]
        f == Val(r.fd)
    IN  /\ r.pc = "save_write"
        /\ IF f = Unlinked
           THEN UNCHANGED <<files, order>>
           ELSE /\ \E c \in Overwrites(files[f], JsonFile(r.state)) :
                      files' = WriteFiles(files, f, c)
                /\ order' = WriteOrder(order, f)
        /\ proc' = [proc EXCEPT ![p] =
              [r EXCEPT !.pc = "save_replace", !.fd = None]]
        /\ UNCHANGED faults

\* what a write that stops part-way leaves in the open file
PartlyWritten(old) == {old} \cup Overwrites(old, PartialFile)

\* the write fails part-way: tmp keeps what was written, nothing removes it
SaveWriteFails(p) ==
    LET r == proc[p]
        f == Val(r.fd)
    IN  /\ r.pc = "save_write"
        /\ faults < MaxFaults
        /\ faults' = faults + 1
        /\ IF f = Unlinked
           THEN UNCHANGED <<files, order>>
           ELSE /\ \E c \in PartlyWritten(files[f]) :
                      files' = WriteFiles(files, f, c)
                /\ order' = WriteOrder(order, f)
        /\ proc' = [proc EXCEPT ![p] = die(r, "write")]

\* tmp.replace(path); FileNotFoundError, and die, when another process has
\* renamed or removed the file of that name
SaveReplace(p) ==
    LET r == proc[p]
        path == Val(r.state_path)
        tmp == TmpPath(path)
    IN  /\ r.pc = "save_replace"
        /\ IF Exists(files, tmp)
           THEN /\ files' = MoveFiles(files, tmp, path)
                /\ order' = MoveOrder(order, tmp, path)
                /\ proc' = [Moved(proc, tmp, path) EXCEPT ![p] =
                      [r EXCEPT !.pc = "update_last"]]
           ELSE /\ proc' = [proc EXCEPT ![p] = die(r, "write")]
                /\ UNCHANGED <<files, order>>
        /\ UNCHANGED faults

\* tmp.replace(path) fails: tmp stays, the state file is as it was
SaveReplaceFails(p) ==
    LET r == proc[p]
    IN  /\ r.pc = "save_replace"
        /\ faults < MaxFaults
        /\ faults' = faults + 1
        /\ proc' = [proc EXCEPT ![p] = die(r, "write")]
        /\ UNCHANGED <<files, order>>

---------------------------------------------------------------------------
(* update_last_state, lines 95-99, then lines 288-289 *)

\* print(reply); return 0
Printed(r) == [r EXCEPT !.pc = "done", !.printed = r.reply, !.exit = Some(0)]

\* the pointer file is overwritten with the name of the state
UpdateLast(p) ==
    LET r == proc[p]
    IN  /\ r.pc = "update_last"
        /\ files' = WriteFiles(files, LAST_STATE_FILE,
                               TextFile(Val(r.state_path)))
        /\ order' = WriteOrder(order, LAST_STATE_FILE)
        /\ proc' = [proc EXCEPT ![p] = Printed(r)]
        /\ UNCHANGED faults

\* a pointer write whose failure ends the invocation like any other error
UpdateLastAborts(p) ==
    LET r == proc[p]
    IN  /\ r.pc = "update_last"
        /\ faults < MaxFaults
        /\ faults' = faults + 1
        /\ proc' = [proc EXCEPT ![p] = die(r, "pointer")]
        /\ UNCHANGED <<files, order>>

\* write_text raises: a warning, and the reply is printed all the same.  The
\* pointer file is as it was when the open failed, empty when the write did.
UpdateLastFails(p) ==
    LET r == proc[p]
    IN  /\ r.pc = "update_last"
        /\ faults < MaxFaults
        /\ faults' = faults + 1
        /\ \/ UNCHANGED <<files, order>>
           \/ /\ files' = WriteFiles(files, LAST_STATE_FILE, EmptyFile)
              /\ order' = WriteOrder(order, LAST_STATE_FILE)
        /\ proc' = [proc EXCEPT ![p] = [Printed(r) EXCEPT !.warned = TRUE]]

\* the process is killed between two steps; killed while it writes tmp, part
\* of the text may have reached the file
Kill(p) ==
    LET r == proc[p]
    IN  /\ Running(p)
        /\ faults < MaxFaults
        /\ faults' = faults + 1
        /\ proc' = [proc EXCEPT ![p] =
              [r EXCEPT !.pc = "killed", !.fd = None]]
        /\ IF r.pc = "save_write" /\ r.fd # Some(Unlinked)
           THEN /\ \E c \in PartlyWritten(files[Val(r.fd)]) :
                      files' = WriteFiles(files, Val(r.fd), c)
                /\ order' = WriteOrder(order, Val(r.fd))
           ELSE UNCHANGED <<files, order>>

---------------------------------------------------------------------------
(* The administrative commands *)

\* the pointer text as rm and rename read it (lines 214-215, 235-236)
PointerText(fs) ==
    IF Exists(fs, LAST_STATE_FILE)
    THEN Some(Strip(ReadText(fs[LAST_STATE_FILE])))
    ELSE None

\* rename that does not look at the new name
RenameNoConflict(fs, dst) == FALSE

\* lines 214-216: rm removes the pointer file when it names the target
RmClearsPointer(fs, target) == PointerText(fs) = Some(target)

\* line 228: rename refuses a new name that exists
RenameConflict(fs, dst) == PathExists(fs, dst)

\* lines 235-237: rename rewrites the pointer file when it names the source
RenameUpdatesPointer(fs, src) == PointerText(fs) = Some(src)

\* ls, lines 196-203: the names of the state files
Ls(p) ==
    /\ Idle(p)
    /\ proc' = [proc EXCEPT ![p] =
          [Started("ls") EXCEPT !.pc = "done", !.exit = Some(0),
                                !.listed = list_state_files(files)]]
    /\ UNCHANGED <<files, order, faults>>

\* rm, lines 205-221
Rm(p, in) ==
    /\ Idle(p)
    /\ \E arg \in in.names :
        LET r0 == [Started("rm") EXCEPT !.arg_state = Some(arg)]
            target == PathName(arg)
            fs1 == UnlinkFiles(files, target)
            ord1 == UnlinkOrder(order, target)
            clear == RmClearsPointer(fs1, target)
        IN  IF ~PathExists(files, target)
            THEN /\ proc' = [proc EXCEPT ![p] = die(r0, "not_found")]
                 /\ UNCHANGED <<files, order>>
            ELSE IF IsDir(target)
            THEN /\ proc' = [proc EXCEPT ![p] = die(r0, "unlink")]
                 /\ UNCHANGED <<files, order>>
            ELSE /\ files' = IF clear THEN UnlinkFiles(fs1, LAST_STATE_FILE)
                             ELSE fs1
                 /\ order' = IF clear THEN UnlinkOrder(ord1, LAST_STATE_FILE)
                             ELSE ord1
                 /\ proc' =
                       [(IF clear
                         THEN Removed(Removed(proc, target), LAST_STATE_FILE)
                         ELSE Removed(proc, target))
                        EXCEPT ![p] =
                           [r0 EXCEPT !.pc = "done", !.exit = Some(0)]]
    /\ UNCHANGED faults

\* rename, lines 223-242
Rename(p, in) ==
    /\ Idle(p)
    /\ \E old \in in.names, new \in in.names :
        LET r0 == [Started("rename") EXCEPT !.arg_state = Some(old),
                                            !.arg_other = Some(new)]
            src == PathName(old)
            dst == PathName(new)
            fs1 == MoveFiles(files, src, dst)
            ord1 == MoveOrder(order, src, dst)
            update == RenameUpdatesPointer(fs1, src)
        IN  IF ~PathExists(files, src)
            THEN /\ proc' = [proc EXCEPT ![p] = die(r0, "not_found")]
                 /\ UNCHANGED <<files, order>>
            ELSE IF RenameConflict(files, dst)
            THEN /\ proc' = [proc EXCEPT ![p] = die(r0, "exists")]
                 /\ UNCHANGED <<files, order>>
            ELSE IF IsDir(src)
            THEN /\ proc' = [proc EXCEPT ![p] = die(r0, "rename")]
                 /\ UNCHANGED <<files, order>>
            ELSE /\ files' = IF update
                             THEN WriteFiles(fs1, LAST_STATE_FILE, TextFile(dst))
                             ELSE fs1
                 /\ order' = IF update THEN WriteOrder(ord1, LAST_STATE_FILE)
                             ELSE ord1
                 /\ proc' = [Moved(proc, src, dst) EXCEPT ![p] =
                       [r0 EXCEPT !.pc = "done", !.exit = Some(0)]]
    /\ UNCHANGED faults

\* the process has exited; the next invocation is a new process
Exit(p) ==
    /\ proc[p].pc \in {"done", "killed"}
    /\ proc' = [proc EXCEPT ![p] = IdleProc]
    /\ UNCHANGED <<files, order, faults>>

---------------------------------------------------------------------------
(* The specification: invocations run one at a time (section 5 of the      *)
(* design: one process, one invocation).                                   *)

Init ==
    /\ files = EmptyDir
    /\ order = <<>>
    /\ proc = [p \in Procs |-> IdleProc]
    /\ faults = 0

Step(p, in) ==
    \/ Ls(p)
    \/ Rm(p, in)
    \/ Rename(p, in)
    \/ SendNoKey(p)
    \/ SendStart(p, in)
    \/ Load(p)
    \/ LoadFails(p)
    \/ Call(p, in)
    \/ CallFails(p)
    \/ SaveOpen(p)
    \/ SaveOpenFails(p)
    \/ SaveWrite(p)
    \/ SaveWriteFails(p)
    \/ SaveReplace(p)
    \/ SaveReplaceFails(p)
    \/ UpdateLast(p)
    \/ UpdateLastFails(p)
    \/ Kill(p)
    \/ Exit(p)

Next == Step(1, Inputs)

Spec == Init /\ [][Next]_vars

NextHistory == Step(1, HistoryInputs)

SpecHistory == Init /\ [][NextHistory]_vars

NextFields == Step(1, FieldInputs)

SpecFields == Init /\ [][NextFields]_vars

NextNames == Step(1, NameInputs)

SpecNames == Init /\ [][NextNames]_vars

NextReserved == Step(1, ReservedInputs)

SpecReserved == Init /\ [][NextReserved]_vars

\* Two sends at the same time, without kills and I/O failures: nothing in the
\* code serialises them.
RaceStep(p) ==
    \/ SendStart(p, RaceInputs)
    \/ Load(p)
    \/ Call(p, RaceInputs)
    \/ SaveOpen(p)
    \/ SaveWrite(p)
    \/ SaveReplace(p)
    \/ UpdateLast(p)
    \/ Exit(p)

NextRace == \E p \in Procs : RaceStep(p)

SpecRace == Init /\ [][NextRace]_vars

---------------------------------------------------------------------------
(* What the claims speak of *)

\* a persistent send whose completion call has returned
Replied(r) == r.cmd = "send" /\ ~r.arg_new /\ r.reply # None

\* the position of a name in a modification order
Pos(ord, name) == CHOOSE i \in 1..Len(ord) : ord[i] = name

\* name is a state file of fs none of which is newer
IsNewest(fs, ord, name) ==
    /\ name \in list_state_files(fs)
    /\ \A m \in list_state_files(fs) : Pos(ord, m) <= Pos(ord, name)

\* the pointer file of fs holds exactly this name
PointerIs(fs, name) ==
    Exists(fs, LAST_STATE_FILE) /\ fs[LAST_STATE_FILE] = TextFile(name)

\* the pointer file of fs is missing or has no text
NoPointer(fs) ==
    Exists(fs, LAST_STATE_FILE) => Strip(ReadText(fs[LAST_STATE_FILE])) = <<>>

\* name has the same content, or the same absence, in both directories
SameFile(fs1, fs2, name) ==
    /\ Exists(fs1, name) <=> Exists(fs2, name)
    /\ Exists(fs1, name) => fs1[name] = fs2[name]

---------------------------------------------------------------------------
(* C1: at every point of save_state(n, s), the process killed there or    *)
(* not, the file of n holds its complete previous content (or is still    *)
(* absent) or the complete new content s; it is never empty or partial.   *)

SaveIsAtomic ==
    \A p \in Procs :
        LET r == proc[p]
            n == Val(r.state_path)
        IN  (Replied(r) /\ (r.pc # "done" \/ r.error = "write"))
                => \/ SameFile(files, r.pre_files, n)
                   \/ Exists(files, n) /\ files[n] = JsonFile(r.state)

\* killed while tmp is partly written, over a state file that existed
WitnessKilledMidWrite ==
    \E p \in Procs :
        LET r == proc[p]
            n == Val(r.state_path)
        IN  /\ Replied(r) /\ r.pc = "killed"
            /\ Exists(files, TmpPath(n)) /\ files[TmpPath(n)] = PartialFile
            /\ Exists(r.pre_files, n) /\ files[n] = r.pre_files[n]

---------------------------------------------------------------------------
(* C3: a send given a state name operates on the file of that name's last  *)
(* path component: that is the path resolved, the state loaded and, when   *)
(* save_state returns, the file written, whatever the pointer and the      *)
(* newest file name; no file but this one, its temporary file and the      *)
(* pointer file changes.                                                   *)

---------------------------------------------------------------------------
(* C4: a send without a state name, the pointer file missing, empty or     *)
(* unreadable, resolves to a state file none of which is newer; when there *)
(* is no state file either it ends with status 2, no request was made and  *)
(* the directory is as it was.                                             *)

FallbackIsNewest ==
    \A p \in Procs :
        LET r == proc[p]
        IN  (r.cmd = "send" /\ ~r.arg_new /\ r.arg_state = None
                /\ r.prompt # <<>>
                /\ (NoPointer(r.pre_files) \/ r.unreadable))
            => IF list_state_files(r.pre_files) # {}
               THEN /\ r.state_path # None
                    /\ IsNewest(r.pre_files, r.pre_order, Val(r.state_path))
               ELSE /\ r.pc = "done" /\ r.exit = Some(2)
                    /\ r.error = "no_state"
                    /\ r.request = None
                    /\ files = r.pre_files /\ order = r.pre_order

\* the pointer file has no text, two state files, the newer one is resolved
WitnessFallback ==
    \E p \in Procs :
        LET r == proc[p]
        IN  /\ r.cmd = "send" /\ ~r.arg_new /\ r.arg_state = None
            /\ NoPointer(r.pre_files)
            /\ Cardinality(list_state_files(r.pre_files)) >= 2
            /\ r.pc = "done" /\ r.exit = Some(0)
            /\ r.state_path = Some(r.pre_order[Len(r.pre_order)])

---------------------------------------------------------------------------
(* C2 *)

\* save_state has put the new state in the file of the resolved name
Saved(r) ==
    /\ Exists(files, Val(r.state_path))
    /\ files[Val(r.state_path)] = JsonFile(r.state)

\* C2 as stated: once the completion call has returned, a finished send has
\* either saved the state and updated the pointer, or printed the reply with
\* a warning
TurnNeverLosesReply ==
    \A p \in Procs :
        LET r == proc[p]
        IN  (Replied(r) /\ r.pc = "done")
            => \/ Saved(r) /\ PointerIs(files, Val(r.state_path))
               \/ r.printed = r.reply /\ r.warned

\* C2 as amended: when save_state returns the state is in its file, the
\* reply is then printed with status 0, and the pointer names the state or a
\* warning was given; when save_state fails the invocation ends with status
\* 2, the reply is not printed, and neither the state file nor the pointer
\* file has changed
TurnAppliedOrAborted ==
    \A p \in Procs :
        LET r == proc[p]
            n == Val(r.state_path)
        IN  /\ (Replied(r) /\ r.pc = "update_last") => Saved(r)
            /\ (Replied(r) /\ r.pc = "done")
                => \/ /\ r.error = ""
                      /\ r.printed = r.reply /\ r.exit = Some(0)
                      /\ r.warned \/ PointerIs(files, n)
                   \/ /\ r.error = "write" /\ r.exit = Some(2)
                      /\ r.printed = None /\ ~r.warned
                      /\ SameFile(files, r.pre_files, n)
                      /\ SameFile(files, r.pre_files, LAST_STATE_FILE)

\* the pointer write failed: the state is saved, the reply printed, a warning
\* given, and the pointer file still names another state
WitnessPointerWarning ==
    \E p \in Procs :
        LET r == proc[p]
        IN  /\ Replied(r) /\ r.pc = "done" /\ r.warned
            /\ Saved(r) /\ r.printed = r.reply
            /\ Exists(files, LAST_STATE_FILE)
            /\ files[LAST_STATE_FILE].kind = "text"
            /\ files[LAST_STATE_FILE].text # Val(r.state_path)

---------------------------------------------------------------------------
(* C5 *)

\* a persistent send, with a prompt, started on a directory without files
FreshSend(r) ==
    /\ r.cmd = "send" /\ ~r.arg_new /\ r.prompt # <<>>
    /\ r.pre_files = EmptyDir

\* the state the first turn of a new conversation leaves
FirstTurn(r, st) ==
    st.messages = <<Turn("user", r.prompt), Turn("assistant", Val(r.reply))>>

\* C5 as stated: on a fresh store a send without a state name succeeds,
\* creates a state file holding the two turns, and the pointer names it
FreshSendSucceeds ==
    \A p \in Procs :
        LET r == proc[p]
        IN  (FreshSend(r) /\ r.arg_state = None /\ r.pc = "done")
            => /\ r.exit = Some(0)
               /\ \E n \in list_state_files(files) :
                    /\ files[n].kind = "json"
                    /\ FirstTurn(r, files[n].state)
                    /\ PointerIs(files, n)

\* C5 as amended: on a fresh store a send without a state name ends at once
\* with status 2, without a request, a state file or a pointer; only a send
\* that names a state creates a file there, and when its save_state returns
\* the file of that name holds exactly the user turn and the assistant turn
FreshSendNeedsName ==
    \A p \in Procs :
        LET r == proc[p]
            n == Val(r.state_path)
        IN  FreshSend(r)
            => IF r.arg_state = None
               THEN /\ r.pc = "done"
                    /\ r.exit = Some(2) /\ r.error = "no_state"
                    /\ r.state_path = None
                    /\ r.request = None /\ r.reply = None
                    /\ files = EmptyDir
               ELSE /\ files # EmptyDir
                        => /\ r.state_path = Some(PathName(Val(r.arg_state)))
                           /\ r.request # None
                    /\ r.pc = "update_last"
                        => /\ Exists(files, n)
                           /\ files[n].kind = "json"
                           /\ FirstTurn(r, files[n].state)

\* the send without a name has ended on the fresh store
WitnessFreshNoName ==
    \E p \in Procs :
        LET r == proc[p]
        IN  FreshSend(r) /\ r.arg_state = None /\ r.pc = "done"

---------------------------------------------------------------------------
(* C6: the request holds the system message first exactly when the state   *)
(* has a non-empty system prompt, then the stored history entry by entry,  *)
(* then the new user turn: k + 2 messages for k stored ones and a system   *)
(* prompt.                                                                 *)

RequestIsSystemHistoryPrompt ==
    \A p \in Procs :
        LET r == proc[p]
            m == Val(r.request).messages
            k == Len(r.loaded.messages)
            off == IF Truthy(r.state.system) THEN 1 ELSE 0
        IN  (r.cmd = "send" /\ ~r.arg_new /\ r.request # None)
            => /\ Len(m) = off + k + 1
               /\ Truthy(r.state.system)
                    => m[1] = Turn("system", Val(r.state.system))
               /\ \A i \in 1..Len(m) : m[i].role = "system" => i = off
               /\ \A i \in 1..k : m[off + i] = r.loaded.messages[i]
               /\ m[Len(m)] = Turn("user", r.prompt)
               /\ r.state.system =
                    IF r.loaded.system = None /\ Truthy(r.arg_system)
                    THEN r.arg_system ELSE r.loaded.system

\* a state with a system prompt and one earlier exchange: four messages
WitnessFourMessages ==
    \E p \in Procs :
        LET r == proc[p]
        IN  /\ r.cmd = "send" /\ ~r.arg_new /\ r.request # None
            /\ Truthy(r.loaded.system)
            /\ Len(r.loaded.messages) = 2
            /\ Len(Val(r.request).messages) = 4

---------------------------------------------------------------------------
(* C7: without kills and I/O failures, a successful persistent send leaves *)
(* in the state file the history it loaded followed by the user turn and   *)
(* then the assistant turn; every complete state file alternates user,     *)
(* assistant.  For the state named like the pointer file the pointer write *)
(* replaces the history just saved (C19): this does not hold.              *)

Alternates(msgs) ==
    /\ Len(msgs) % 2 = 0
    /\ \A i \in 1..Len(msgs) :
          msgs[i].role = IF i % 2 = 1 THEN "user" ELSE "assistant"

HistoryGrowsByOneExchange ==
    /\ \A p \in Procs :
        LET r == proc[p]
            n == Val(r.state_path)
        IN  (faults = 0 /\ r.cmd = "send" /\ ~r.arg_new /\ r.pc = "done"
                /\ r.exit = Some(0))
            => /\ Exists(files, n) /\ files[n].kind = "json"
               /\ r.loaded.messages =
                    IF Exists(r.pre_files, n)
                    THEN r.pre_files[n].state.messages ELSE <<>>
               /\ files[n].state.messages =
                    r.loaded.messages
                        \o <<Turn("user", r.prompt),
                             Turn("assistant", Val(r.reply))>>
    /\ \A n \in DOMAIN files :
          files[n].kind = "json" => Alternates(files[n].state.messages)

\* a second exchange has been added to a state
WitnessSecondExchange ==
    \E p \in Procs :
        LET r == proc[p]
        IN  /\ r.cmd = "send" /\ ~r.arg_new /\ r.pc = "done"
            /\ r.exit = Some(0)
            /\ Len(r.loaded.messages) = 2
            /\ Len(files[Val(r.state_path)].state.messages) = 4

---------------------------------------------------------------------------
(* C8: without kills and I/O failures, after a successful rm n, if the     *)
(* pointer named n the pointer file is gone and a resolution without a     *)
(* name gives the newest remaining state file, or fails when none remains, *)
(* and never n; if the pointer named another state the pointer file is as  *)
(* it was.  rm of the pointer file's own name removes the pointer whatever *)
(* it names (C19): this does not hold.                                     *)

\* what resolve_state_path answers now when no name is given
ResolvesTo == resolve_state_path(None, files, order, TRUE)

RmClearsItsPointer ==
    \A p \in Procs :
        LET r == proc[p]
            n == PathName(Val(r.arg_state))
        IN  (faults = 0 /\ r.cmd = "rm" /\ r.pc = "done" /\ r.exit = Some(0))
            => /\ ~Exists(files, n)
               /\ IF PointerIs(r.pre_files, n)
                  THEN /\ ~Exists(files, LAST_STATE_FILE)
                       /\ ResolvesTo # Some(n)
                       /\ IF list_state_files(files) = {}
                          THEN ResolvesTo = None
                          ELSE /\ ResolvesTo # None
                               /\ IsNewest(files, order, Val(ResolvesTo))
                  ELSE SameFile(files, r.pre_files, LAST_STATE_FILE)

\* the pointed-to state was removed and another state remains
WitnessRmPointed ==
    \E p \in Procs :
        LET r == proc[p]
        IN  /\ r.cmd = "rm" /\ r.pc = "done" /\ r.exit = Some(0)
            /\ PointerIs(r.pre_files, PathName(Val(r.arg_state)))
            /\ list_state_files(files) # {}

---------------------------------------------------------------------------
(* C9: without kills and I/O failures, after a successful rename old new   *)
(* the content of old is under new and old is gone; if the pointer named   *)
(* old it now names new and a resolution without a name gives new; if it   *)
(* named another state the pointer file is as it was.  rename of the       *)
(* pointer file's own name moves the pointer away whatever it names (C19): *)
(* this does not hold.                                                     *)

RenameMovesItsPointer ==
    \A p \in Procs :
        LET r == proc[p]
            old == PathName(Val(r.arg_state))
            new == PathName(Val(r.arg_other))
        IN  (faults = 0 /\ r.cmd = "rename" /\ r.pc = "done"
                /\ r.exit = Some(0))
            => /\ ~Exists(files, old)
               /\ Exists(files, new) /\ files[new] = r.pre_files[old]
               /\ IF PointerIs(r.pre_files, old)
                  THEN PointerIs(files, new) /\ ResolvesTo = Some(new)
                  ELSE SameFile(files, r.pre_files, LAST_STATE_FILE)

\* the pointed-to state was renamed
WitnessRenamePointed ==
    \E p \in Procs :
        LET r == proc[p]
        IN  /\ r.cmd = "rename" /\ r.pc = "done" /\ r.exit = Some(0)
            /\ PointerIs(r.pre_files, PathName(Val(r.arg_state)))

---------------------------------------------------------------------------
(* C10: rm of a name without a file, rename of an old name without a file  *)
(* and rename to a new name that has a file (old = new too) end with       *)
(* status 2 and leave every file, its content and modification order, and  *)
(* the pointer as they were.                                               *)

FailedAdminChangesNothing ==
    \A p \in Procs :
        LET r == proc[p]
            old == PathName(Val(r.arg_state))
            new == PathName(Val(r.arg_other))
        IN  (r.pc = "done"
                /\ \/ r.cmd = "rm" /\ ~Exists(r.pre_files, old)
                   \/ r.cmd = "rename" /\ ~Exists(r.pre_files, old)
                   \/ r.cmd = "rename" /\ Exists(r.pre_files, new))
            => /\ r.exit = Some(2)
               /\ files = r.pre_files
               /\ order = r.pre_order

\* a rename onto an existing other state has been refused
WitnessRenameRefused ==
    \E p \in Procs :
        LET r == proc[p]
            old == PathName(Val(r.arg_state))
            new == PathName(Val(r.arg_other))
        IN  /\ r.cmd = "rename" /\ r.pc = "done" /\ r.exit = Some(2)
            /\ old # new
            /\ Exists(files, old) /\ Exists(files, new)
            /\ files[old] # files[new]

---------------------------------------------------------------------------
(* C11: an ephemeral send (--new), with or without a state name, resolves  *)
(* no state path, loads no state, does not read the pointer and leaves     *)
(* every file of the directory, the pointer included, and the modification *)
(* order as they were; its request is the system message, when --system    *)
(* has text, and the new user turn.                                        *)

EphemeralTouchesNothing ==
    \A p \in Procs :
        LET r == proc[p]
        IN  (r.cmd = "send" /\ r.arg_new /\ r.prompt # <<>>)
            => /\ r.pc \in {"call", "done", "killed"}
               /\ r.state_path = None
               /\ r.loaded = DefaultState
               /\ ~r.unreadable
               /\ files = r.pre_files /\ order = r.pre_order
               /\ r.request # None
                    => /\ Val(r.request).messages =
                            (IF Truthy(r.arg_system)
                             THEN <<Turn("system", Val(r.arg_system))>>
                             ELSE <<>>) \o <<Turn("user", r.prompt)>>
                       /\ Val(r.request).model = r.arg_model

\* an ephemeral send that names an existing state, while the pointer names
\* another one, has printed its reply
WitnessEphemeralNamed ==
    \E p \in Procs :
        LET r == proc[p]
            n == PathName(Val(r.arg_state))
        IN  /\ r.cmd = "send" /\ r.arg_new /\ r.arg_state # None
            /\ r.pc = "done" /\ r.exit = Some(0) /\ r.printed = r.reply
            /\ Exists(files, n) /\ files[n].kind = "json"
            /\ \E m \in list_state_files(files) :
                  m # n /\ PointerIs(files, m)

---------------------------------------------------------------------------
(* C12: when the completion call fails in a send that is not ephemeral,    *)
(* the invocation ends with status 1 without printing a reply, and every   *)
(* file of the directory (the state file, a temporary file, the pointer)   *)
(* and the modification order are as they were: the model and the system   *)
(* prompt defaulted in memory are not written.                             *)

FailedCallPersistsNothing ==
    \A p \in Procs :
        LET r == proc[p]
        IN  (r.cmd = "send" /\ ~r.arg_new /\ r.error = "api")
            => /\ r.pc = "done" /\ r.exit = Some(1)
               /\ r.reply = None /\ r.printed = None
               /\ r.request # None
               /\ files = r.pre_files /\ order = r.pre_order

\* the call failed after --system was defaulted in memory into a stored
\* state that has no system prompt
WitnessFailedCall ==
    \E p \in Procs :
        LET r == proc[p]
            n == Val(r.state_path)
        IN  /\ r.cmd = "send" /\ ~r.arg_new /\ r.error = "api"
            /\ Exists(files, n) /\ files[n].kind = "json"
            /\ files[n].state.system = None
            /\ Truthy(r.state.system)

---------------------------------------------------------------------------
(* C13: when save_state has failed with an I/O error, the temporary file   *)
(* of the state is not in the directory once the invocation has ended, so  *)
(* that neither ls nor the newest-file scan sees it.  save_state has no     *)
(* cleanup: this does not hold.                                            *)

TmpRemovedOnSaveFailure ==
    \A p \in Procs :
        LET r == proc[p]
            tmp == TmpPath(Val(r.state_path))
        IN  (Replied(r) /\ r.pc = "done" /\ r.error = "write")
            => /\ ~Exists(files, tmp)
               /\ tmp \notin list_state_files(files)
               /\ resolve_state_path(None, files, order, TRUE) # Some(tmp)

---------------------------------------------------------------------------
(* C14: while two sends run at the same time, without any kill or I/O      *)
(* failure, the file of a state a send has resolved always holds a         *)
(* complete history that alternates user turn, assistant turn.  Both sends *)
(* of one state use the same temporary file: this does not hold.           *)

RaceKeepsTurnsPaired ==
    \A p \in Procs :
        LET r == proc[p]
            n == Val(r.state_path)
        IN  (r.cmd = "send" /\ r.state_path # None /\ Exists(files, n))
            => /\ files[n].kind = "json"
               /\ Alternates(files[n].state.messages)

---------------------------------------------------------------------------
(* C15: when two sends to one state name have loaded the same history and  *)
(* both have ended, both have ended with status 0 and the state file is    *)
(* the complete state one of the two has written.  This does not hold.     *)

LastWriterWins ==
    LET r1 == proc[1]
        r2 == proc[2]
        n == Val(r1.state_path)
    IN  (/\ Replied(r1) /\ Replied(r2)
         /\ r1.pc = "done" /\ r2.pc = "done"
         /\ r1.state_path = r2.state_path
         /\ r1.loaded = r2.loaded)
        => /\ r1.exit = Some(0) /\ r2.exit = Some(0)
           /\ Exists(files, n)
           /\ files[n] \in {JsonFile(r1.state), JsonFile(r2.state)}

---------------------------------------------------------------------------
(* C16 *)

\* a send on a state file that was complete when the send started
OnStored(r) ==
    /\ r.cmd = "send" /\ ~r.arg_new /\ r.state_path # None
    /\ Exists(r.pre_files, Val(r.state_path))
    /\ r.pre_files[Val(r.state_path)].kind = "json"

\* C16 as stated: a model stored non-null is the model of the request and is
\* still the stored model afterwards, whatever --model says; a system
\* prompt stored non-null is still the stored one afterwards
FieldsSetOnce ==
    \A p \in Procs :
        LET r == proc[p]
            n == Val(r.state_path)
            stored == r.pre_files[n].state
        IN  OnStored(r)
            => /\ (stored.model # None /\ r.request # None)
                    => Val(r.request).model = Val(stored.model)
               /\ (stored.model # None /\ files[n].kind = "json")
                    => files[n].state.model = stored.model
               /\ (stored.system # None /\ files[n].kind = "json")
                    => files[n].state.system = stored.system

\* C16 as amended: the stored model and system prompt, once non-null, are
\* never changed by a send; the request uses the stored model when it is a
\* non-empty string and the --model of the command line when it is empty;
\* the system message of the request is the stored system prompt
FieldsPersist ==
    \A p \in Procs :
        LET r == proc[p]
            n == Val(r.state_path)
            stored == r.pre_files[n].state
        IN  OnStored(r)
            => /\ Exists(files, n)
               /\ (stored.model # None /\ r.request # None)
                    => Val(r.request).model =
                          IF Val(stored.model) # <<>>
                          THEN Val(stored.model) ELSE r.arg_model
               /\ (stored.model # None /\ files[n].kind = "json")
                    => files[n].state.model = stored.model
               /\ (stored.system # None /\ files[n].kind = "json")
                    => files[n].state.system = stored.system
               /\ (stored.system # None /\ r.request # None)
                    => Val(r.request).messages[1] =
                          Turn("system", Val(stored.system))

\* a send with another --model and another --system has succeeded on a
\* state that stores a model and a system prompt
WitnessOtherModel ==
    \E p \in Procs :
        LET r == proc[p]
            stored == r.pre_files[Val(r.state_path)].state
        IN  /\ OnStored(r) /\ r.pc = "done" /\ r.exit = Some(0)
            /\ Truthy(stored.model) /\ Truthy(stored.system)
            /\ r.arg_model # <<>> /\ r.arg_model # Val(stored.model)
            /\ Truthy(r.arg_system) /\ r.arg_system # stored.system

---------------------------------------------------------------------------
(* C17: for every state argument of send, rm and rename, the argument is   *)
(* rejected as an empty name or the path the command works on is an entry  *)
(* of the store directory: not the directory itself (the empty name) and   *)
(* not its parent (".."), and without a separator.  Only send rejects the  *)
(* empty name and nothing rejects "..": this does not hold.                *)

\* name is an entry directly inside the store directory
Confined(name) ==
    /\ name # <<>>
    /\ name # <<".", ".">>
    /\ \A i \in 1..Len(name) : name[i] # "/"

StatesAreConfined ==
    \A p \in Procs :
        LET r == proc[p]
        IN  /\ (r.cmd = "send" /\ ~r.arg_new /\ r.arg_state # None
                    /\ r.prompt # <<>>)
                => \/ r.error = "empty_name"
                   \/ r.state_path # None /\ Confined(Val(r.state_path))
            /\ r.cmd = "rm"
                => \/ r.error = "empty_name"
                   \/ Confined(PathName(Val(r.arg_state)))
            /\ r.cmd = "rename"
                => \/ r.error = "empty_name"
                   \/ /\ Confined(PathName(Val(r.arg_state)))
                      /\ Confined(PathName(Val(r.arg_other)))

---------------------------------------------------------------------------
(* C18: a send to state n, whether it succeeds or fails, leaves the file   *)
(* of every other state m as it was, m = n + ".tmp" included.  The         *)
(* temporary file of n has the name of state n + ".tmp": this does not     *)
(* hold, even without kills and I/O failures.                              *)

SendChangesOnlyItsState ==
    \A p \in Procs :
        LET r == proc[p]
            n == Val(r.state_path)
        IN  (faults = 0 /\ r.cmd = "send" /\ ~r.arg_new
                /\ r.state_path # None)
            => \A m \in list_state_files(r.pre_files) \ {n} :
                  SameFile(files, r.pre_files, m)

---------------------------------------------------------------------------
(* C19: whenever no command is running and the pointer file is present,    *)
(* its text is the name of a file that list_state_files returns, other     *)
(* than the pointer file, holding a complete state.  A send to the state   *)
(* named like the pointer file writes the pointer over the state: this     *)
(* does not hold, even without kills and I/O failures.                     *)

PointerIsValid ==
    (/\ faults = 0
     /\ \A p \in Procs : proc[p].pc \in {"idle", "done"}
     /\ Exists(files, LAST_STATE_FILE))
    => LET last == Strip(ReadText(files[LAST_STATE_FILE]))
       IN  /\ last \in list_state_files(files)
           /\ last # LAST_STATE_FILE
           /\ files[last].kind = "json"

---------------------------------------------------------------------------
(* C20: with -p and without --stdin, the content of the new user turn is   *)
(* the -p text itself, in the request and, after a successful persistent   *)
(* send, in the state file.  Line 249 appends a space to the -p text: this *)
(* does not hold.                                                          *)

PromptIsSentAsGiven ==
    \A p \in Procs :
        LET r == proc[p]
            given == Turn("user", Val(r.arg_prompt))
            sent == Val(r.request).messages
            kept == files[Val(r.state_path)].state.messages
        IN  (r.cmd = "send" /\ Truthy(r.arg_prompt) /\ ~r.arg_stdin)
            => /\ r.request # None => sent[Len(sent)] = given
               /\ (~r.arg_new /\ r.pc = "done" /\ r.exit = Some(0))
                    => kept[Len(kept) - 1] = given

=============================================================================
